---- MODULE Spec2Model ----
(***************************************************************************)
(* Marketplace CRUD API (product/api_examples.py) over the relational      *)
(* schema of product/models.py, validated by product/schemas.py.           *)
(*                                                                         *)
(* The state is the committed content of the relational store, one         *)
(* variable per table, plus the last request with its response.  Every     *)
(* handler runs in its own session and commits once, so a handler is one   *)
(* atomic action in most specifications below; SpecSession and             *)
(* SpecTransaction run a request in steps (session opened, checks, commit, *)
(* session closed) that interleave.  The store is SQLite as configured in  *)
(* product/database.py: the engine never issues PRAGMA foreign_keys=ON, so *)
(* foreign keys and their ON DELETE rules are not enforced by the store;   *)
(* UNIQUE and PRIMARY KEY constraints are.  Row removal on delete is what  *)
(* the ORM relationship cascades of models.py do.                          *)
(*                                                                         *)
(* Prices are floats in the source; the model uses integers.               *)
(* An Optional[int] value is a set: {} is None and {v} is the value v.     *)
(* Columns no handler reads in a decision (description, phone, address,    *)
(* comment, timestamps, seller name) are left out of the rows.             *)
(***************************************************************************)
EXTENDS Integers, FiniteSets, Sequences, TLC

VARIABLES
    sellers,           \* table sellers:          [id, email, password]
    seller_profiles,   \* table seller_profiles:  [id, seller_id]
    products,          \* table products:         [id, name, price, status, seller_id]
    categories,        \* table categories:       [id, name, parent_id]
    product_category,  \* table product_category: [product_id, category_id]
    inventory,         \* table inventory:        [id, product_id, quantity, reorder_level]
    reviews,           \* table reviews:          [id, product_id, user_id, rating]
    users,             \* table users:            [id]
    last,              \* the last request and its response: [op, req, status,
                       \* detail, queries, body, deleted]
    requests           \* the requests in flight, one per slot: [pc, session,
                       \* op, req, pending, response]

store == <<sellers, seller_profiles, products, categories, product_category,
           inventory, reviews, users>>
vars == <<sellers, seller_profiles, products, categories, product_category,
          inventory, reviews, users, last, requests>>

(***************************************************************************)
(* Bounds of the model.                                                    *)
(***************************************************************************)
\* largest primary key a table hands out in the specifications below
MaxId == 2
\* largest number of users present in the store at start
MaxUsers == 1
\* largest product id in the specification of the list endpoints
MaxListed == 3
\* largest number of rows, all tables together, in the specification of the
\* cascading deletes
MaxRows == 6
\* number of requests that can be in flight at once
MaxRequests == 2

(***************************************************************************)
(* HTTP status codes the handlers name.                                    *)
(***************************************************************************)
HTTP_201_CREATED == 201
HTTP_204_NO_CONTENT == 204
HTTP_400_BAD_REQUEST == 400
HTTP_404_NOT_FOUND == 404
HTTP_500_INTERNAL_SERVER_ERROR == 500

(***************************************************************************)
(* Optional values and Python truthiness.                                  *)
(***************************************************************************)
None == {}
IsNone(o) == o = {}
\* `if x:` on an Optional[int]: None and 0 are both falsy
Truthy(o) == \E v \in o : v # 0

Max(S) == CHOOSE m \in S : \A n \in S : n <= m

\* INTEGER PRIMARY KEY of SQLite without AUTOINCREMENT: largest rowid plus one
NextId(table) == IF table = {} THEN 1 ELSE Max({r.id : r \in table}) + 1

\* the response of a handler that raised HTTPException(status, detail) after
\* `queries` statements on its session
Raise(op, req, status, detail, queries) ==
    [op |-> op, req |-> req, status |-> status, detail |-> detail,
     queries |-> queries, body |-> <<>>, deleted |-> {}]

\* the response of a handler that returned normally
Return(op, req, status, queries, body) ==
    [op |-> op, req |-> req, status |-> status, detail |-> "",
     queries |-> queries, body |-> body, deleted |-> {}]

\* the response of a delete handler: 204, and the tables its commit
\* deleted rows from
Deleted(op, req, queries, tables) ==
    [op |-> op, req |-> req, status |-> HTTP_204_NO_CONTENT, detail |-> "",
     queries |-> queries, body |-> <<>>, deleted |-> tables]

\* a route without status_code answers 200
Ok(op, req, queries, body) == Return(op, req, 200, queries, body)

\* the request body or query failed its declared Field constraints: the
\* framework answers 422 and never calls the handler
RequestValidationError(op, req) ==
    Raise(op, req, 422, "validation error", 0)

\* db.commit() raised IntegrityError (a UNIQUE constraint of the store): no
\* handler catches it, the framework answers 500 and the session is closed
\* with the transaction discarded
IntegrityError(op, req, queries) ==
    Raise(op, req, HTTP_500_INTERNAL_SERVER_ERROR, "Internal Server Error", queries)

(***************************************************************************)
(* The store after construction: every table the handlers write is empty. *)
(* No handler of the source writes the users table, so the users a review  *)
(* can refer to are rows already present in the store file.                *)
(***************************************************************************)
Init ==
    /\ sellers = {}
    /\ seller_profiles = {}
    /\ products = {}
    /\ categories = {}
    /\ product_category = {}
    /\ inventory = {}
    /\ reviews = {}
    /\ \E n \in 0..MaxUsers : users = {[id |-> i] : i \in 1..n}
    /\ last = Ok("startup", <<>>, 0, <<>>)
    /\ requests = [r \in 1..MaxRequests |->
                       [pc |-> "idle", session |-> "none", op |-> "", req |-> <<>>,
                        pending |-> [sellers |-> {}, categories |-> {},
                                     products |-> {}, product_category |-> {},
                                     delete_sellers |-> {}, delete_products |-> {}],
                        response |-> [status |-> 0, detail |-> ""]]]

(***************************************************************************)
(* Relationships of models.py, as queries on the tables.                   *)
(***************************************************************************)
\* Seller.products
Seller_products(s) == {p \in products : p.seller_id = s.id}
\* Seller.profile
Seller_profile(s) == {f \in seller_profiles : f.seller_id = s.id}
\* Product.inventory
Product_inventory(p) == {i \in inventory : i.product_id = p.id}
\* the relationship without its join condition
Product_reviews_All(p) == reviews

\* Product.reviews
Product_reviews(p) == {r \in reviews : r.product_id = p.id}
\* the rows of the secondary table behind Product.categories
Product_categories(p) == {a \in product_category : a.product_id = p.id}

\* a relationship without a delete cascade: the store enforces no foreign
\* key, so the rows stay
CascadeReviews_None(ps) == {}
CascadeCategories_None(ps) == {}

\* rows the unit of work removes with a set ps of deleted products:
\* cascade='all, delete-orphan' on inventory and reviews, and the secondary
\* rows of the many-to-many relationship
CascadeInventory(ps) == UNION {Product_inventory(p) : p \in ps}
CascadeReviews(ps) == UNION {Product_reviews(p) : p \in ps}
CascadeCategories(ps) == UNION {Product_categories(p) : p \in ps}

\* the tables a commit deletes rows from when it deletes the products ps
DeletedWith(ps) ==
    (IF ps # {} THEN {"products"} ELSE {})
    \cup (IF CascadeInventory(ps) # {} THEN {"inventory"} ELSE {})
    \cup (IF CascadeReviews(ps) # {} THEN {"reviews"} ELSE {})
    \cup (IF CascadeCategories(ps) # {} THEN {"product_category"} ELSE {})

\* first() of a query filtered on the primary key, as an Optional row
ById(table, id) == {r \in table : r.id = id}

(***************************************************************************)
(* POST /sellers/                                                          *)
(***************************************************************************)
\* the existence check filtering on another column
SellerByEmail_WrongColumn(email) == {s \in sellers : s.password = email}

\* db.query(Seller).filter(Seller.email == seller.email).first()
SellerByEmail(email) == {s \in sellers : s.email = email}

\* the seller lookup with its filter left out
SellerById_NoFilter(seller_id) == sellers

\* db.query(Seller).filter(Seller.id == seller_id).first()
SellerById(seller_id) == ById(sellers, seller_id)

\* db.query(Product).filter(Product.id == product_id).first()
ProductById(product_id) == ById(products, product_id)

\* db.query(Category).filter(Category.id == category_id).first()
CategoryById(category_id) == ById(categories, category_id)

\* Column email: unique=True
SellerEmailTaken(email) == \E s \in sellers : s.email = email

SellerResponse(s) == [id |-> s.id, email |-> s.email]

create_seller(email, password) ==
    LET req == [email |-> email, password |-> password]
        db_seller == [id |-> NextId(sellers), email |-> email, password |-> password]
    IN  IF SellerByEmail(email) # {}
        THEN /\ last' = Raise("create_seller", req, HTTP_400_BAD_REQUEST,
                              "Email already registered", 1)
             /\ UNCHANGED store
        ELSE IF SellerEmailTaken(email)
        THEN /\ last' = IntegrityError("create_seller", req, 2)
             /\ UNCHANGED store
        ELSE /\ sellers' = sellers \cup {db_seller}
             /\ last' = Return("create_seller", req, HTTP_201_CREATED, 3,
                               SellerResponse(db_seller))
             /\ UNCHANGED <<seller_profiles, products, categories,
                            product_category, inventory, reviews, users>>

(***************************************************************************)
(* POST /sellers/{seller_id}/products/                                     *)
(***************************************************************************)
\* the status set with a fourth value let through
ProductStatus_WithSold == {"active", "inactive", "draft", "sold"}

\* Field(regex='^(active|inactive|draft)$') and check_valid_status
ProductStatus == {"active", "inactive", "draft"}

\* ProductCreate: price gt 0, status one of the three, seller_id required in
\* the body (an Optional here: {} is a body without the field)
ValidProductCreate(product) ==
    /\ product.price > 0
    /\ product.status \in ProductStatus
    /\ ~IsNone(product.seller_id)

\* db.query(Category).filter(Category.id.in_(product.category_ids)).all()
CategoriesIn(category_ids) == {c \in categories : c.id \in category_ids}

\* UniqueConstraint('name', 'seller_id') of products
ProductNameTaken(name, seller_id) ==
    \E p \in products : p.name = name /\ p.seller_id = seller_id

\* CheckConstraint('price >= 0') and CheckConstraint("status IN (...)")
ProductChecks(row) == row.price >= 0 /\ row.status \in ProductStatus

create_product_for_seller(seller_id, product) ==
    LET op == "create_product_for_seller"
        req == [seller_id |-> seller_id, product |-> product]
        db_product == [id |-> NextId(products), name |-> product.name,
                       price |-> product.price, status |-> product.status,
                       seller_id |-> seller_id]
        cats == IF product.category_ids # {} THEN CategoriesIn(product.category_ids)
                ELSE {}
        nq == IF product.category_ids # {} THEN 2 ELSE 1
    IN  IF ~ValidProductCreate(product)
        THEN /\ last' = RequestValidationError(op, req)
             /\ UNCHANGED store
        ELSE IF SellerById(seller_id) = {}
        THEN /\ last' = Raise(op, req, HTTP_404_NOT_FOUND, "Seller not found", 1)
             /\ UNCHANGED store
        ELSE IF ProductNameTaken(product.name, seller_id) \/ ~ProductChecks(db_product)
        THEN /\ last' = IntegrityError(op, req, nq + 1)
             /\ UNCHANGED store
        ELSE /\ products' = products \cup {db_product}
             /\ product_category' = product_category \cup
                    {[product_id |-> db_product.id, category_id |-> c.id] : c \in cats}
             /\ last' = Ok(op, req, nq + 2,
                           [id |-> db_product.id, seller_id |-> seller_id,
                            categories |-> {c.id : c \in cats}])
             /\ UNCHANGED <<sellers, seller_profiles, categories, inventory,
                            reviews, users>>

(***************************************************************************)
(* DELETE /sellers/{seller_id} and DELETE /products/{product_id}           *)
(***************************************************************************)
delete_seller(seller_id) ==
    LET op == "delete_seller"
        req == [seller_id |-> seller_id]
        found == SellerById(seller_id)
        ps == UNION {Seller_products(s) : s \in found}
    IN  IF found = {}
        THEN /\ last' = Raise(op, req, HTTP_404_NOT_FOUND, "Seller not found", 1)
             /\ UNCHANGED store
        ELSE /\ sellers' = sellers \ found
             /\ seller_profiles' = seller_profiles \ UNION {Seller_profile(s) : s \in found}
             /\ products' = products \ ps
             /\ inventory' = inventory \ CascadeInventory(ps)
             /\ reviews' = reviews \ CascadeReviews(ps)
             /\ product_category' = product_category \ CascadeCategories(ps)
             /\ last' = Deleted(op, req, 2,
                    {"sellers"}
                    \cup (IF UNION {Seller_profile(s) : s \in found} # {}
                          THEN {"seller_profiles"} ELSE {})
                    \cup DeletedWith(ps))
             /\ UNCHANGED <<categories, users>>

delete_product(product_id) ==
    LET op == "delete_product"
        req == [product_id |-> product_id]
        found == ProductById(product_id)
    IN  IF found = {}
        THEN /\ last' = Raise(op, req, HTTP_404_NOT_FOUND, "Product not found", 1)
             /\ UNCHANGED store
        ELSE /\ products' = products \ found
             /\ inventory' = inventory \ CascadeInventory(found)
             /\ reviews' = reviews \ CascadeReviews(found)
             /\ product_category' = product_category \ CascadeCategories(found)
             /\ last' = Deleted(op, req, 2, DeletedWith(found))
             /\ UNCHANGED <<sellers, seller_profiles, categories, users>>

(***************************************************************************)
(* POST /products/{product_id}/inventory, PUT /products/{product_id}/inventory *)
(***************************************************************************)
\* InventoryCreate: quantity ge 0, reorder_level ge 0, product_id required in
\* the body (an Optional here: {} is a body without the field)
ValidInventoryCreate(inv) ==
    /\ inv.quantity >= 0
    /\ inv.reorder_level >= 0
    /\ ~IsNone(inv.product_id)

\* the inventory lookup filtering on the primary key
InventoryOf_ById(product_id) == {i \in inventory : i.id = product_id}

\* db.query(Inventory).filter(Inventory.product_id == product_id).first()
InventoryOf(product_id) == {i \in inventory : i.product_id = product_id}

\* Column product_id of inventory: unique=True
InventoryProductTaken(product_id) ==
    \E i \in inventory : i.product_id = product_id

\* CheckConstraint('quantity >= 0') and CheckConstraint('reorder_level >= 0')
InventoryChecks(row) == row.quantity >= 0 /\ row.reorder_level >= 0

create_product_inventory(product_id, inv) ==
    LET op == "create_product_inventory"
        req == [product_id |-> product_id, inventory |-> inv]
        db_inventory == [id |-> NextId(inventory), product_id |-> product_id,
                         quantity |-> inv.quantity,
                         reorder_level |-> inv.reorder_level]
    IN  IF ~ValidInventoryCreate(inv)
        THEN /\ last' = RequestValidationError(op, req)
             /\ UNCHANGED store
        ELSE IF ProductById(product_id) = {}
        THEN /\ last' = Raise(op, req, HTTP_404_NOT_FOUND, "Product not found", 1)
             /\ UNCHANGED store
        ELSE IF InventoryOf(product_id) # {}
        THEN /\ last' = Raise(op, req, HTTP_400_BAD_REQUEST,
                              "Inventory already exists for this product", 2)
             /\ UNCHANGED store
        ELSE IF InventoryProductTaken(product_id) \/ ~InventoryChecks(db_inventory)
        THEN /\ last' = IntegrityError(op, req, 3)
             /\ UNCHANGED store
        ELSE /\ inventory' = inventory \cup {db_inventory}
             /\ last' = Ok(op, req, 4, db_inventory)
             /\ UNCHANGED <<sellers, seller_profiles, products, categories,
                            product_category, reviews, users>>

\* InventoryUpdate: both fields Optional, ge 0 when given
ValidInventoryUpdate(upd) ==
    /\ \A q \in upd.quantity : q >= 0
    /\ \A r \in upd.reorder_level : r >= 0

\* the update written with `if inventory_update.<field>:`, which skips 0
ApplyInventoryUpdate_Truthy(row, upd) ==
    [row EXCEPT
        !.quantity = IF Truthy(upd.quantity)
                     THEN CHOOSE q \in upd.quantity : TRUE ELSE @,
        !.reorder_level = IF Truthy(upd.reorder_level)
                          THEN CHOOSE r \in upd.reorder_level : TRUE ELSE @]

\* `if inventory_update.<field> is not None: inventory.<field> = ...`
ApplyInventoryUpdate(row, upd) ==
    [row EXCEPT
        !.quantity = IF upd.quantity # None
                     THEN CHOOSE q \in upd.quantity : TRUE ELSE @,
        !.reorder_level = IF upd.reorder_level # None
                          THEN CHOOSE r \in upd.reorder_level : TRUE ELSE @]

update_product_inventory(product_id, upd) ==
    LET op == "update_product_inventory"
        req == [product_id |-> product_id, inventory_update |-> upd]
        found == InventoryOf(product_id)
    IN  IF ~ValidInventoryUpdate(upd)
        THEN /\ last' = RequestValidationError(op, req)
             /\ UNCHANGED store
        ELSE IF found = {}
        THEN /\ last' = Raise(op, req, HTTP_404_NOT_FOUND, "Inventory not found", 1)
             /\ UNCHANGED store
        ELSE IF \E row \in found : ~InventoryChecks(ApplyInventoryUpdate(row, upd))
        THEN /\ last' = IntegrityError(op, req, 2)
             /\ UNCHANGED store
        ELSE /\ inventory' = (inventory \ found) \cup
                             {ApplyInventoryUpdate(row, upd) : row \in found}
             /\ last' = Ok(op, req, 3,
                           CHOOSE r \in {ApplyInventoryUpdate(row, upd) : row \in found} : TRUE)
             /\ UNCHANGED <<sellers, seller_profiles, products, categories,
                            product_category, reviews, users>>

(***************************************************************************)
(* POST /categories/ and the product-category association                  *)
(***************************************************************************)
\* db.query(Category).filter(Category.name == category.name).first()
CategoryByName(name) == {c \in categories : c.name = name}

\* Column name of categories: unique=True
CategoryNameTaken(name) == \E c \in categories : c.name = name

create_category(category) ==
    LET op == "create_category"
        req == [category |-> category]
        db_category == [id |-> NextId(categories), name |-> category.name,
                        parent_id |-> category.parent_id]
    IN  IF CategoryByName(category.name) # {}
        THEN /\ last' = Raise(op, req, HTTP_400_BAD_REQUEST,
                              "Category name already exists", 1)
             /\ UNCHANGED store
        ELSE IF Truthy(category.parent_id)
                /\ \A v \in category.parent_id : CategoryById(v) = {}
        THEN /\ last' = Raise(op, req, HTTP_404_NOT_FOUND,
                              "Parent category not found", 2)
             /\ UNCHANGED store
        ELSE IF CategoryNameTaken(category.name)
        THEN /\ last' = IntegrityError(op, req, IF Truthy(category.parent_id) THEN 3 ELSE 2)
             /\ UNCHANGED store
        ELSE /\ categories' = categories \cup {db_category}
             /\ last' = Ok(op, req, IF Truthy(category.parent_id) THEN 5 ELSE 4,
                           db_category)
             /\ UNCHANGED <<sellers, seller_profiles, products, product_category,
                            inventory, reviews, users>>

\* the membership test always failing
Associated_Never(product_id, category_id) == FALSE

\* `category in product.categories`
Associated(product_id, category_id) ==
    [product_id |-> product_id, category_id |-> category_id] \in product_category

\* product_category: (product_id, category_id) is the primary key
AssociationTaken(product_id, category_id) ==
    \E a \in product_category :
        a.product_id = product_id /\ a.category_id = category_id

add_category_to_product(product_id, category_id) ==
    LET op == "add_category_to_product"
        req == [product_id |-> product_id, category_id |-> category_id]
    IN  IF ProductById(product_id) = {}
        THEN /\ last' = Raise(op, req, HTTP_404_NOT_FOUND, "Product not found", 1)
             /\ UNCHANGED store
        ELSE IF CategoryById(category_id) = {}
        THEN /\ last' = Raise(op, req, HTTP_404_NOT_FOUND, "Category not found", 2)
             /\ UNCHANGED store
        ELSE IF Associated(product_id, category_id)
        THEN /\ last' = Raise(op, req, HTTP_400_BAD_REQUEST,
                              "Category already assigned to product", 3)
             /\ UNCHANGED store
        ELSE IF AssociationTaken(product_id, category_id)
        THEN /\ last' = IntegrityError(op, req, 4)
             /\ UNCHANGED store
        ELSE /\ product_category' = product_category \cup
                    {[product_id |-> product_id, category_id |-> category_id]}
             /\ last' = Ok(op, req, 4,
                           [message |-> "Category added to product successfully"])
             /\ UNCHANGED <<sellers, seller_profiles, products, categories,
                            inventory, reviews, users>>

remove_category_from_product(product_id, category_id) ==
    LET op == "remove_category_from_product"
        req == [product_id |-> product_id, category_id |-> category_id]
    IN  IF ProductById(product_id) = {}
        THEN /\ last' = Raise(op, req, HTTP_404_NOT_FOUND, "Product not found", 1)
             /\ UNCHANGED store
        ELSE IF CategoryById(category_id) = {}
        THEN /\ last' = Raise(op, req, HTTP_404_NOT_FOUND, "Category not found", 2)
             /\ UNCHANGED store
        ELSE IF ~Associated(product_id, category_id)
        THEN /\ last' = Raise(op, req, HTTP_400_BAD_REQUEST,
                              "Category not assigned to product", 3)
             /\ UNCHANGED store
        ELSE /\ product_category' = product_category \
                    {[product_id |-> product_id, category_id |-> category_id]}
             /\ last' = Ok(op, req, 4,
                           [message |-> "Category removed from product successfully"])
             /\ UNCHANGED <<sellers, seller_profiles, products, categories,
                            inventory, reviews, users>>

(***************************************************************************)
(* POST /reviews/                                                          *)
(***************************************************************************)
\* the rating constraint without its upper bound
ValidReviewCreate_NoUpper(review) == review.rating >= 1

\* ReviewCreate: rating ge 1 and le 5
ValidReviewCreate(review) ==
    /\ review.rating >= 1
    /\ review.rating <= 5

\* CheckConstraint('rating >= 1 AND rating <= 5')
ReviewChecks(row) == row.rating >= 1 /\ row.rating <= 5

create_review(review) ==
    LET op == "create_review"
        req == [review |-> review]
        db_review == [id |-> NextId(reviews), product_id |-> review.product_id,
                      user_id |-> review.user_id, rating |-> review.rating]
    IN  IF ~ValidReviewCreate(review)
        THEN /\ last' = RequestValidationError(op, req)
             /\ UNCHANGED store
        ELSE IF ProductById(review.product_id) = {}
        THEN /\ last' = Raise(op, req, HTTP_404_NOT_FOUND, "Product not found", 1)
             /\ UNCHANGED store
        ELSE IF Truthy(review.user_id)
                /\ \A v \in review.user_id : ById(users, v) = {}
        THEN /\ last' = Raise(op, req, HTTP_404_NOT_FOUND, "User not found", 2)
             /\ UNCHANGED store
        ELSE IF ~ReviewChecks(db_review)
        THEN /\ last' = IntegrityError(op, req, IF Truthy(review.user_id) THEN 3 ELSE 2)
             /\ UNCHANGED store
        ELSE /\ reviews' = reviews \cup {db_review}
             /\ last' = Ok(op, req, IF Truthy(review.user_id) THEN 5 ELSE 4,
                           db_review)
             /\ UNCHANGED <<sellers, seller_profiles, products, categories,
                            product_category, inventory, users>>

(***************************************************************************)
(* Rows of seller_profiles.  No handler of the source writes this table;   *)
(* a profile row enters the store from outside the API, for a stored       *)
(* seller that has none (seller_id is UNIQUE and NOT NULL).                *)
(***************************************************************************)
insert_seller_profile(seller_id) ==
    /\ SellerById(seller_id) # {}
    /\ ~\E f \in seller_profiles : f.seller_id = seller_id
    /\ seller_profiles' = seller_profiles \cup
           {[id |-> NextId(seller_profiles), seller_id |-> seller_id]}
    /\ last' = Ok("insert_seller_profile", [seller_id |-> seller_id], 1, <<>>)
    /\ UNCHANGED <<sellers, products, categories, product_category, inventory,
                   reviews, users>>

(***************************************************************************)
(* GET /products/ and GET /products/search: the pagination envelope        *)
(***************************************************************************)
\* largest page size both endpoints accept: Query(100, ge=1, le=1000)
LimitMax == 1000
\* Product.is_expensive: price > 100
ExpensiveAbove == 100

Min(a, b) == IF a <= b THEN a ELSE b

\* floor division where the ceiling is meant
Ceil_Floor(total, limit) == total \div limit

\* math.ceil(total / limit) for total >= 0 and limit >= 1.  The quotient is
\* a float in the source; it is exact for every row count below 2^43.
Ceil(total, limit) ==
    (total \div limit) + (IF total % limit = 0 THEN 0 ELSE 1)

\* pages = math.ceil(total / limit) if total > 0 else 0
Pages(total, limit) == IF total > 0 THEN Ceil(total, limit) ELSE 0

\* page = (skip // limit) + 1
Page(skip, limit) == (skip \div limit) + 1

\* str.lower() on the letters product names are written with
Lower(ch) ==
    CASE ch = "W" -> "w"
      [] ch = "G" -> "g"
      [] OTHER -> ch

LowerSeq(str) == [i \in 1..Len(str) |-> Lower(str[i])]

\* Product.name.ilike('%' + pattern + '%'): case-insensitive substring
ILike(name, pattern) ==
    \E i \in 0..(Len(name) - Len(pattern)) :
        SubSeq(LowerSeq(name), i + 1, i + Len(pattern)) = LowerSeq(pattern)

\* ProductListResponse for the rows a query matched.  The query has no
\* ORDER BY, so offset(skip).limit(limit) may return any window of the
\* matched rows; items holds each returned product once.
Envelope(op, req, rows, skip, limit, window) ==
    Ok(op, req, 2,
       [items |-> {r[1] : r \in window},
        total |-> Cardinality(rows),
        page  |-> Page(skip, limit),
        size  |-> limit,
        pages |-> Pages(Cardinality(rows), limit)])

\* the windows offset(skip).limit(limit) can return from the matched rows
Windows(rows, skip, limit) ==
    LET k == Min(limit, IF Cardinality(rows) > skip THEN Cardinality(rows) - skip ELSE 0)
    IN  {w \in SUBSET rows : Cardinality(w) = k}

\* skip: Query(0, ge=0); limit: Query(100, ge=1, le=1000)
ValidPaging(skip, limit) == skip >= 0 /\ limit >= 1 /\ limit <= LimitMax

\* the filters of get_products, each applied `if <value>:`
ListFilter(q) ==
    {p \in products :
        /\ Truthy(q.seller_id) => \A v \in q.seller_id : p.seller_id = v
        /\ Truthy(q.min_price) => \A v \in q.min_price : p.price >= v
        /\ Truthy(q.max_price) => \A v \in q.max_price : p.price <= v}

get_products(q) ==
    LET op == "get_products"
        rows == {<<p.id, None>> : p \in ListFilter(q)}
    IN  /\ UNCHANGED store
        /\ IF ~(/\ ValidPaging(q.skip, q.limit)
                /\ \A v \in q.min_price : v > 0
                /\ \A v \in q.max_price : v > 0)
           THEN last' = RequestValidationError(op, q)
           ELSE \E w \in Windows(rows, q.skip, q.limit) :
                    last' = Envelope(op, q, rows, q.skip, q.limit, w)

\* the filters of search_products on the products table
SearchFilter(q) ==
    {p \in products :
        /\ (q.name # None /\ q.name # {<<>>}) => \A v \in q.name : ILike(p.name, v)
        /\ Truthy(q.min_price) => \A v \in q.min_price : p.price >= v
        /\ Truthy(q.max_price) => \A v \in q.max_price : p.price <= v
        /\ Truthy(q.seller_id) => \A v \in q.seller_id : p.seller_id = v
        /\ (q.status # None /\ q.status # {""}) => \A v \in q.status : p.status = v
        /\ q.is_expensive # None =>
               \A v \in q.is_expensive : (p.price > ExpensiveAbove) = v}

\* query.join(Product.categories).filter(Category.id.in_(category_ids)):
\* one row per (product, category) pair of the join
SearchRows(q) ==
    IF q.category_ids # None /\ q.category_ids # {{}}
    THEN {<<a.product_id, {a.category_id}>> :
            a \in {x \in product_category :
                     /\ \E p \in SearchFilter(q) : p.id = x.product_id
                     /\ \E c \in categories : c.id = x.category_id
                     /\ \A ids \in q.category_ids : x.category_id \in ids}}
    ELSE {<<p.id, None>> : p \in SearchFilter(q)}

search_products(q) ==
    LET op == "search_products"
        rows == SearchRows(q)
    IN  /\ UNCHANGED store
        /\ IF ~ValidPaging(q.skip, q.limit)
           THEN last' = RequestValidationError(op, q)
           ELSE \E w \in Windows(rows, q.skip, q.limit) :
                    last' = Envelope(op, q, rows, q.skip, q.limit, w)

(***************************************************************************)
(* GET /sellers/statistics                                                 *)
(***************************************************************************)
\* the rows of sellers LEFT OUTER JOIN products (outerjoin(Seller.products)):
\* one row per product of a seller, and one row with a NULL product for a
\* seller without products
StatisticsJoin ==
    {<<j[1], {j[2]}>> : j \in {x \in sellers \X products : x[2].seller_id = x[1].id}}
    \cup {<<s, {}>> : s \in {x \in sellers : Seller_products(x) = {}}}

RECURSIVE SumPrice(_)
\* the sum of Product.price over a set of products
SumPrice(ps) ==
    IF ps = {} THEN 0
    ELSE LET p == CHOOSE x \in ps : TRUE IN p.price + SumPrice(ps \ {p})

\* func.count(col): the rows of the join in which col is not NULL
CountSellerId(join) == Cardinality(join)
CountProductId(join) == Cardinality({j \in join : j[2] # {}})

\* the products of the join rows
JoinedProducts(join) == UNION {j[2] : j \in join}

\* `float(x) if x else 0` on an aggregate that is NULL over no rows.  The
\* average is kept as the fraction <<sum, count>>; <<0, 1>> is 0.
AveragePrice(ps) ==
    IF ps = {} \/ SumPrice(ps) = 0 THEN <<0, 1>> ELSE <<SumPrice(ps), Cardinality(ps)>>
MaxPrice(ps) == IF ps = {} THEN 0 ELSE Max({p.price : p \in ps})
MinPrice(ps) ==
    IF ps = {} THEN 0
    ELSE CHOOSE m \in {p.price : p \in ps} : \A p \in ps : m <= p.price

get_seller_statistics ==
    LET join == StatisticsJoin
        ps == JoinedProducts(join)
    IN  /\ last' = Ok("get_seller_statistics", <<>>, 1,
                      [total_sellers |-> CountSellerId(join),
                       total_products |-> CountProductId(join),
                       average_price |-> AveragePrice(ps),
                       max_price |-> MaxPrice(ps),
                       min_price |-> MinPrice(ps)])
        /\ UNCHANGED store

(***************************************************************************)
(* GET /products/{product_id}/seller: the two handlers of this path        *)
(***************************************************************************)
\* Product.seller: the row seller_id refers to, None when there is none
Product_seller(p) == SellerById(p.seller_id)

\* the first handler registered for the path
get_product_seller(product_id) ==
    LET op == "get_product_seller"
        req == [product_id |-> product_id]
        product == ProductById(product_id)
    IN  /\ UNCHANGED store
        /\ IF product = {}
           THEN last' = Raise(op, req, HTTP_404_NOT_FOUND, "Product not found", 1)
           ELSE \E p \in product : \E s \in Product_seller(p) :
                    last' = Ok(op, req, 1, SellerResponse(s))

\* ErrorResponse(detail, error_code, field).dict(), field an Optional[str]
ErrorResponse(detail, error_code, field) ==
    [detail |-> detail, error_code |-> error_code, field |-> field]

\* `except Exception as e:` around the whole body: HTTPException is an
\* Exception, so whatever the body raised is replaced by the 500 answer
ExceptException(raised) ==
    Raise(raised.op, raised.req, HTTP_500_INTERNAL_SERVER_ERROR,
          ErrorResponse("Internal server error", "INTERNAL_ERROR", None),
          raised.queries)

get_product_seller_with_error_handling(product_id) ==
    LET op == "get_product_seller_with_error_handling"
        req == [product_id |-> product_id]
        product == ProductById(product_id)
    IN  /\ UNCHANGED store
        /\ IF product = {}
           THEN last' = ExceptException(
                    Raise(op, req, HTTP_404_NOT_FOUND,
                          ErrorResponse("Product not found", "PRODUCT_NOT_FOUND",
                                        {"product_id"}), 1))
           ELSE \E p \in product :
                    IF Product_seller(p) = {}
                    THEN last' = ExceptException(
                             Raise(op, req, HTTP_404_NOT_FOUND,
                                   ErrorResponse("Product has no seller", "NO_SELLER",
                                                 {"seller_id"}), 1))
                    ELSE \E s \in Product_seller(p) :
                             last' = Return(op, req, 200, 1, SellerResponse(s))

(***************************************************************************)
(* Requests in flight.  A request runs in four steps: get_db opens its     *)
(* session and yields it, the handler runs its checks and adds rows to the *)
(* session, db.commit() writes them, and the finally clause of get_db      *)
(* closes the session.  Steps of different requests interleave; the store  *)
(* variables are the committed rows, the rows a session has added and not  *)
(* committed are its pending rows.                                         *)
(***************************************************************************)
Slots == 1..MaxRequests

\* the rows a session holds for its next flush, one set per table; the
\* product_id of a pending association is None when it is the id the pending
\* product is about to get.  delete_sellers and delete_products are the rows
\* db.delete() marked: the seller, and the products its cascade loaded then.
NoPending ==
    [sellers |-> {}, categories |-> {}, products |-> {}, product_category |-> {},
     delete_sellers |-> {}, delete_products |-> {}]

NoResponse == [status |-> 0, detail |-> ""]
Response(status, detail) == [status |-> status, detail |-> detail]

Idle(session) ==
    [pc |-> "idle", session |-> session, op |-> "", req |-> <<>>,
     pending |-> NoPending, response |-> NoResponse]

\* ---- the checks of each handler, up to its first raise ------------------
create_seller_checks(req) ==
    IF SellerByEmail(req.email) # {}
    THEN Response(HTTP_400_BAD_REQUEST, "Email already registered")
    ELSE NoResponse

create_category_checks(req) ==
    IF CategoryByName(req.name) # {}
    THEN Response(HTTP_400_BAD_REQUEST, "Category name already exists")
    ELSE IF Truthy(req.parent_id) /\ \A v \in req.parent_id : CategoryById(v) = {}
    THEN Response(HTTP_404_NOT_FOUND, "Parent category not found")
    ELSE NoResponse

add_category_to_product_checks(req) ==
    IF ProductById(req.product_id) = {}
    THEN Response(HTTP_404_NOT_FOUND, "Product not found")
    ELSE IF CategoryById(req.category_id) = {}
    THEN Response(HTTP_404_NOT_FOUND, "Category not found")
    ELSE IF Associated(req.product_id, req.category_id)
    THEN Response(HTTP_400_BAD_REQUEST, "Category already assigned to product")
    ELSE NoResponse

create_product_for_seller_checks(req) ==
    IF ~ValidProductCreate(req.product)
    THEN Response(422, "validation error")
    ELSE IF SellerById(req.seller_id) = {}
    THEN Response(HTTP_404_NOT_FOUND, "Seller not found")
    ELSE NoResponse

delete_seller_checks(req) ==
    IF SellerById(req.seller_id) = {}
    THEN Response(HTTP_404_NOT_FOUND, "Seller not found")
    ELSE NoResponse

Checks(op, req) ==
    CASE op = "create_seller" -> create_seller_checks(req)
      [] op = "create_category" -> create_category_checks(req)
      [] op = "add_category_to_product" -> add_category_to_product_checks(req)
      [] op = "create_product_for_seller" -> create_product_for_seller_checks(req)
      [] op = "delete_seller" -> delete_seller_checks(req)

\* ---- the rows each handler adds to its session before db.commit() -------
Adds(op, req) ==
    CASE op = "create_seller" ->
            [NoPending EXCEPT !.sellers =
                {[email |-> req.email, password |-> req.password]}]
      [] op = "create_category" ->
            [NoPending EXCEPT !.categories =
                {[name |-> req.name, parent_id |-> req.parent_id]}]
      [] op = "add_category_to_product" ->
            [NoPending EXCEPT !.product_category =
                {[product_id |-> {req.product_id}, category_id |-> req.category_id]}]
      [] op = "create_product_for_seller" ->
            [NoPending EXCEPT
                !.products = {[name |-> req.product.name, price |-> req.product.price,
                               status |-> req.product.status,
                               seller_id |-> req.seller_id]},
                !.product_category =
                    {[product_id |-> None, category_id |-> c.id] :
                        c \in IF req.product.category_ids # {}
                              THEN CategoriesIn(req.product.category_ids) ELSE {}}]
      [] op = "delete_seller" ->
            [NoPending EXCEPT
                !.delete_sellers = SellerById(req.seller_id),
                !.delete_products =
                    UNION {Seller_products(s) : s \in SellerById(req.seller_id)}]

\* status of the answer when the handler returns
SuccessStatus(op) ==
    CASE op = "create_seller" -> HTTP_201_CREATED
      [] op = "delete_seller" -> HTTP_204_NO_CONTENT
      [] OTHER -> 200

\* ---- db.commit() ----------------------------------------------------------
\* the pending rows the store refuses: UNIQUE, PRIMARY KEY and CHECK.  A
\* DELETE that matches no row is not refused, and with foreign keys not
\* enforced neither is an INSERT whose seller_id matches no seller.
Refused(pending) ==
    [sellers |-> {s \in pending.sellers : SellerEmailTaken(s.email)},
     categories |-> {c \in pending.categories : CategoryNameTaken(c.name)},
     products |-> {p \in pending.products :
                     ProductNameTaken(p.name, p.seller_id) \/ ~ProductChecks(p)},
     product_category |->
         {a \in pending.product_category :
             \E pid \in a.product_id : AssociationTaken(pid, a.category_id)},
     delete_sellers |-> {},
     delete_products |-> {}]

\* a flush that keeps the rows written before the refused one
Flushed_Partial(pending) ==
    [t \in DOMAIN pending |-> pending[t] \ Refused(pending)[t]]

\* the rows a commit writes: the flush runs in one transaction, so a refused
\* row leaves none of them written
Flushed(pending) ==
    IF Refused(pending) = NoPending THEN pending ELSE NoPending

\* DELETE FROM table WHERE id = ?, for each of the rows marked
Without(table, marked) == {r \in table : \A d \in marked : r.id # d.id}

\* the committed store after a flush of rows f: the INSERTs of the added
\* rows, and the DELETEs of the marked rows with the rows their cascade
\* reaches
Insert(f) ==
    /\ sellers' = Without(sellers, f.delete_sellers) \cup
           {[id |-> NextId(sellers), email |-> s.email, password |-> s.password] :
               s \in f.sellers}
    /\ categories' = categories \cup
           {[id |-> NextId(categories), name |-> c.name, parent_id |-> c.parent_id] :
               c \in f.categories}
    /\ products' = Without(products, f.delete_products) \cup
           {[id |-> NextId(products), name |-> p.name, price |-> p.price,
             status |-> p.status, seller_id |-> p.seller_id] : p \in f.products}
    /\ product_category' = (product_category \ CascadeCategories(f.delete_products)) \cup
           {[product_id |-> IF a.product_id = None THEN NextId(products)
                            ELSE CHOOSE pid \in a.product_id : TRUE,
             category_id |-> a.category_id] : a \in f.product_category}
    /\ seller_profiles' = seller_profiles \
           UNION {Seller_profile(s) : s \in f.delete_sellers}
    /\ inventory' = inventory \ CascadeInventory(f.delete_products)
    /\ reviews' = reviews \ CascadeReviews(f.delete_products)
    /\ UNCHANGED users

\* ---- the steps of a request ---------------------------------------------
\* db = SessionLocal(); yield db.  Slots are interchangeable: a new request
\* takes the lowest free one.
get_db_yield(r, op, req) ==
    /\ requests[r].pc = "idle"
    /\ \A o \in Slots : o < r => requests[o].pc # "idle"
    /\ requests' = [requests EXCEPT ![r] =
           [pc |-> "opened", session |-> "open", op |-> op, req |-> req,
            pending |-> NoPending, response |-> NoResponse]]
    /\ UNCHANGED <<store, last>>

\* the handler from its first query to its last db.add
handler_checks(r) ==
    LET q == requests[r]
        e == Checks(q.op, q.req)
    IN  /\ q.pc = "opened"
        /\ requests' = [requests EXCEPT ![r] =
               IF e # NoResponse
               THEN [q EXCEPT !.pc = "raised", !.response = e]
               ELSE [q EXCEPT !.pc = "added", !.pending = Adds(q.op, q.req)]]
        /\ UNCHANGED <<store, last>>

\* the answer of a handler that returned after a flush of rows f:
\* response_model=ProductResponse has a required seller, and the product of
\* a seller that is no longer stored has none
Returned(op, f) ==
    IF \E p \in f.products : \A s \in sellers' : s.id # p.seller_id
    THEN Response(HTTP_500_INTERNAL_SERVER_ERROR, "Internal Server Error")
    ELSE Response(SuccessStatus(op), "")

\* db.commit() of the handler, and its return
db_commit(r) ==
    LET q == requests[r]
    IN  /\ q.pc = "added"
        /\ Insert(Flushed(q.pending))
        /\ requests' = [requests EXCEPT ![r] =
               IF Refused(q.pending) = NoPending
               THEN [q EXCEPT !.pc = "returned", !.pending = NoPending,
                              !.response = Returned(q.op, q.pending)]
               ELSE [q EXCEPT !.pc = "raised",
                              !.response = Response(HTTP_500_INTERNAL_SERVER_ERROR,
                                                    "Internal Server Error")]]
        /\ UNCHANGED last

\* the exits of the handler that run only when db.close() is not in a
\* finally clause
ExitPaths_ReturnOnly == {"returned"}

\* the exits of the handler after which get_db resumes: try/finally runs
\* db.close() when the handler returned and when it raised
ExitPaths == {"returned", "raised"}

\* finally: db.close().  The pending rows of the session are discarded.  The
\* answer of the request is its response field until this step; `last` is the
\* log of the handlers run in one step and is not written here.
get_db_finally(r) ==
    LET q == requests[r]
    IN  /\ q.pc \in ExitPaths
        /\ requests' = [requests EXCEPT ![r] = Idle("closed")]
        /\ UNCHANGED <<store, last>>

(***************************************************************************)
(* Specifications.  Each one runs a group of handlers on inputs from small *)
(* sets, and stops handing out primary keys above a bound.                 *)
(***************************************************************************)
\* a handler run from get_db to db.close() in one step: it leaves no request
\* in flight
OneStep == UNCHANGED requests

\* number of rows in the store
Rows ==
    Cardinality(sellers) + Cardinality(seller_profiles) + Cardinality(products)
    + Cardinality(categories) + Cardinality(product_category)
    + Cardinality(inventory) + Cardinality(reviews) + Cardinality(users)

IdsWithin(table, n) == \A r \in table : r.id <= n

\* path and body ids: every id a table can hold, and one it never holds
Ids == 1..(MaxId + 1)

\* the ids stored in a table
IdsOf(table) == {r.id : r \in table}

\* a store file without users
InitNoUsers == Init /\ users = {}

Emails == {"a@x.com", "b@x.com"}
Passwords == {"pw123456"}
ProductNames == {<<"W", "i">>, <<"G">>}

\* ---- sellers --------------------------------------------------------
SellerEmails == {"a@x.com", "b@x.com", "c@x.com"}
SellerPasswords == {"pw123456", "hunter2hunter2"}

WithinSeller == IdsWithin(sellers, MaxId)

NextSeller ==
    \/ \E e \in SellerEmails, p \in SellerPasswords :
           create_seller(e, p) /\ WithinSeller' /\ OneStep
    \/ \E s \in Ids : delete_seller(s) /\ WithinSeller' /\ OneStep

SpecSeller == Init /\ [][NextSeller]_vars

\* ---- cascading deletes ------------------------------------------------
\* The requests that build the store name rows that exist; the delete
\* requests also name an id that matches nothing.

PlainProducts ==
    {[name |-> n, price |-> 50, status |-> "active", seller_id |-> {1},
      category_ids |-> {}] : n \in ProductNames}
TaggedProducts ==
    {[name |-> n, price |-> 50, status |-> "active", seller_id |-> {1},
      category_ids |-> c] : n \in ProductNames, c \in {{}, {1}}}
CategoryBodies == {[name |-> "Tools", parent_id |-> None]}
InventoryBodies ==
    {[product_id |-> {1}, quantity |-> 5, reorder_level |-> 10]}
ReviewBodies(ps) ==
    {[product_id |-> p, user_id |-> None, rating |-> 5] : p \in ps}

StoreWithin ==
    /\ IdsWithin(sellers, MaxId)
    /\ IdsWithin(seller_profiles, MaxId)
    /\ IdsWithin(products, MaxId)
    /\ IdsWithin(categories, MaxId)
    /\ IdsWithin(inventory, MaxId)
    /\ IdsWithin(reviews, MaxId)
    /\ Rows <= MaxRows

\* DELETE /sellers/{seller_id} on sellers with profiles, products, inventory
\* and reviews
NextCascade ==
    \/ \E e \in Emails, p \in Passwords : create_seller(e, p) /\ StoreWithin' /\ OneStep
    \/ \E s \in IdsOf(sellers) : insert_seller_profile(s) /\ StoreWithin' /\ OneStep
    \/ \E s \in IdsOf(sellers), b \in PlainProducts :
           create_product_for_seller(s, b) /\ StoreWithin' /\ OneStep
    \/ \E p \in IdsOf(products), b \in InventoryBodies :
           create_product_inventory(p, b) /\ StoreWithin' /\ OneStep
    \/ \E b \in ReviewBodies(IdsOf(products)) : create_review(b) /\ StoreWithin' /\ OneStep
    \/ \E s \in Ids : delete_seller(s) /\ StoreWithin' /\ OneStep
    \/ \E p \in Ids : delete_product(p) /\ StoreWithin' /\ OneStep

SpecCascade == InitNoUsers /\ [][NextCascade]_vars

\* DELETE /products/{product_id} on products with inventory, reviews and
\* categories
NextProductDelete ==
    \/ \E p \in Passwords : create_seller("a@x.com", p) /\ StoreWithin' /\ OneStep
    \/ \E s \in IdsOf(sellers), b \in TaggedProducts :
           create_product_for_seller(s, b) /\ StoreWithin' /\ OneStep
    \/ \E b \in CategoryBodies : create_category(b) /\ StoreWithin' /\ OneStep
    \/ \E p \in IdsOf(products), c \in IdsOf(categories) :
           add_category_to_product(p, c) /\ StoreWithin' /\ OneStep
    \/ \E p \in IdsOf(products), b \in InventoryBodies :
           create_product_inventory(p, b) /\ StoreWithin' /\ OneStep
    \/ \E b \in ReviewBodies(IdsOf(products)) : create_review(b) /\ StoreWithin' /\ OneStep
    \/ \E p \in Ids : delete_product(p) /\ StoreWithin' /\ OneStep

SpecProductDelete == InitNoUsers /\ [][NextProductDelete]_vars

\* ---- the list endpoints -----------------------------------------------
ListedNames == {<<"W", "i">>, <<"G">>, <<"w">>, <<"g", "i">>}
\* two products at 50 and two above the is_expensive threshold
ListedProducts ==
    {[name |-> n, price |-> IF Len(n) = 1 THEN 150 ELSE 50, status |-> "active",
      seller_id |-> {1}, category_ids |-> {}] : n \in ListedNames}

\* skip and limit inside their declared ranges, and just outside them
Pagings ==
    {[skip |-> sk, limit |-> li] : sk \in {0, 1, 3}, li \in {1, 2, LimitMax}}
    \cup {[skip |-> -1, limit |-> 1], [skip |-> 0, limit |-> 0],
          [skip |-> 0, limit |-> LimitMax + 1]}

ListQueries ==
    {[skip |-> pg.skip, limit |-> pg.limit, seller_id |-> s, min_price |-> mn,
      max_price |-> None] :
        pg \in Pagings, s \in {None, {1}}, mn \in {None, {100}}}
    \cup {[skip |-> 0, limit |-> 2, seller_id |-> None, min_price |-> None,
           max_price |-> mx] : mx \in {{0}, {10}}}

SearchQueries ==
    {[name |-> n, min_price |-> None, max_price |-> None, seller_id |-> None,
      category_ids |-> None, status |-> None, is_expensive |-> ex,
      skip |-> pg.skip, limit |-> pg.limit] :
        n \in {None, {<<"w">>}}, ex \in {None, {TRUE}}, pg \in Pagings}

WithinList ==
    /\ IdsWithin(sellers, 1)
    /\ IdsWithin(products, MaxListed)

NextList ==
    \/ \E p \in Passwords : create_seller("a@x.com", p) /\ WithinList' /\ OneStep
    \/ \E s \in IdsOf(sellers), b \in ListedProducts :
           create_product_for_seller(s, b) /\ WithinList' /\ OneStep
    \/ \E q \in ListQueries : get_products(q) /\ WithinList' /\ OneStep
    \/ \E q \in SearchQueries : search_products(q) /\ WithinList' /\ OneStep

SpecList == InitNoUsers /\ [][NextList]_vars

\* ---- the product-category association ---------------------------------
CategoryNames == {"Tools", "Toys"}

WithinCategory ==
    /\ IdsWithin(sellers, 1)
    /\ IdsWithin(products, MaxId)
    /\ IdsWithin(categories, MaxId)

NextCategory ==
    \/ \E p \in Passwords : create_seller("a@x.com", p) /\ WithinCategory' /\ OneStep
    \/ \E s \in IdsOf(sellers), b \in PlainProducts :
           create_product_for_seller(s, b) /\ WithinCategory' /\ OneStep
    \/ \E n \in CategoryNames :
           create_category([name |-> n, parent_id |-> None]) /\ WithinCategory' /\ OneStep
    \/ \E p \in Ids, c \in Ids : add_category_to_product(p, c) /\ WithinCategory' /\ OneStep
    \/ \E p \in Ids, c \in Ids : remove_category_from_product(p, c) /\ WithinCategory' /\ OneStep
    \/ \E p \in Ids : delete_product(p) /\ WithinCategory' /\ OneStep

SpecCategory == InitNoUsers /\ [][NextCategory]_vars

\* ---- inventory --------------------------------------------------------
Quantities == {-1, 0, 5}
InventoryCreates ==
    {[product_id |-> {1}, quantity |-> q, reorder_level |-> r] :
        q \in Quantities, r \in {0, 10}}
InventoryUpdates ==
    {[quantity |-> q, reorder_level |-> r] :
        q \in {None} \cup {{v} : v \in Quantities},
        r \in {None} \cup {{v} : v \in {-1, 0, 10}}}

WithinInventory ==
    /\ IdsWithin(sellers, 1)
    /\ IdsWithin(products, MaxId)
    /\ IdsWithin(inventory, MaxId)

NextInventory ==
    \/ \E p \in Passwords : create_seller("a@x.com", p) /\ WithinInventory' /\ OneStep
    \/ \E s \in IdsOf(sellers), b \in PlainProducts :
           create_product_for_seller(s, b) /\ WithinInventory' /\ OneStep
    \/ \E p \in Ids, b \in InventoryCreates :
           create_product_inventory(p, b) /\ WithinInventory' /\ OneStep
    \/ \E p \in Ids, u \in InventoryUpdates :
           update_product_inventory(p, u) /\ WithinInventory' /\ OneStep
    \/ \E p \in Ids : delete_product(p) /\ WithinInventory' /\ OneStep

SpecInventory == InitNoUsers /\ [][NextInventory]_vars

\* ---- reviews ----------------------------------------------------------
\* ratings inside [1, 5] and just outside
Ratings == {0, 1, 5, 6}
ReviewCreates ==
    {[product_id |-> p, user_id |-> u, rating |-> r] :
        p \in Ids, u \in {None, {1}}, r \in Ratings}

WithinReview ==
    /\ IdsWithin(sellers, 1)
    /\ IdsWithin(products, MaxId)
    /\ IdsWithin(reviews, MaxId)

NextReview ==
    \/ \E p \in Passwords : create_seller("a@x.com", p) /\ WithinReview' /\ OneStep
    \/ \E s \in IdsOf(sellers), b \in PlainProducts :
           create_product_for_seller(s, b) /\ WithinReview' /\ OneStep
    \/ \E b \in ReviewCreates : create_review(b) /\ WithinReview' /\ OneStep
    \/ \E p \in Ids : delete_product(p) /\ WithinReview' /\ OneStep

SpecReview == Init /\ [][NextReview]_vars

\* ---- products of a seller ---------------------------------------------
\* bodies that pass ProductCreate, with category ids that exist and one
\* that never does, and bodies that fail it
ProductBodies ==
    {[name |-> n, price |-> 50, status |-> "active", seller_id |-> {1},
      category_ids |-> c] :
        n \in ProductNames, c \in {{}, {1}, {MaxId + 1}, {1, MaxId + 1}}}
    \cup {[name |-> <<"G">>, price |-> 0, status |-> "active",
           seller_id |-> {1}, category_ids |-> {}],
          [name |-> <<"G">>, price |-> 50, status |-> "sold",
           seller_id |-> {1}, category_ids |-> {}],
          [name |-> <<"G">>, price |-> 50, status |-> "active",
           seller_id |-> None, category_ids |-> {}]}

WithinProduct ==
    /\ IdsWithin(sellers, MaxId)
    /\ IdsWithin(products, MaxId)
    /\ IdsWithin(categories, MaxId)

NextProduct ==
    \/ \E e \in Emails, p \in Passwords : create_seller(e, p) /\ WithinProduct' /\ OneStep
    \/ \E s \in Ids : delete_seller(s) /\ WithinProduct' /\ OneStep
    \/ \E n \in CategoryNames :
           create_category([name |-> n, parent_id |-> None]) /\ WithinProduct' /\ OneStep
    \/ \E s \in Ids, b \in ProductBodies : create_product_for_seller(s, b) /\ WithinProduct' /\ OneStep

SpecProduct == InitNoUsers /\ [][NextProduct]_vars

\* ---- filters of the list endpoints --------------------------------------
\* one product at 50 and one above the is_expensive threshold
FilteredProducts ==
    {[name |-> <<"G">>, price |-> 50, status |-> "active", seller_id |-> {1},
      category_ids |-> {}],
     [name |-> <<"W", "i">>, price |-> 150, status |-> "draft", seller_id |-> {1},
      category_ids |-> {}]}

\* GET /products/ with each filter absent, supplied as 0 and supplied as a
\* value some product can match
FilterListQueries ==
    {[skip |-> 0, limit |-> LimitMax, seller_id |-> s, min_price |-> None,
      max_price |-> mx] : s \in {None, {0}, {1}, {2}}, mx \in {None, {100}}}
    \cup {[skip |-> 0, limit |-> LimitMax, seller_id |-> None, min_price |-> mn,
           max_price |-> None] : mn \in {{0}, {100}}}

NoFilter ==
    [name |-> None, min_price |-> None, max_price |-> None, seller_id |-> None,
     category_ids |-> None, status |-> None, is_expensive |-> None,
     skip |-> 0, limit |-> LimitMax]

\* GET /products/search with one filter supplied, or three of them
FilterSearchQueries ==
    {[NoFilter EXCEPT !.seller_id = s] : s \in {{0}, {1}, {2}}}
    \cup {[NoFilter EXCEPT !.min_price = v] : v \in {{0}, {100}}}
    \cup {[NoFilter EXCEPT !.max_price = v] : v \in {{0}, {100}}}
    \cup {[NoFilter EXCEPT !.status = v] : v \in {{"active"}, {"draft"}}}
    \cup {[NoFilter EXCEPT !.is_expensive = v] : v \in {{TRUE}, {FALSE}}}
    \cup {[NoFilter EXCEPT !.category_ids = v, !.limit = li] :
            v \in {{{1}}, {{1, 2}}}, li \in {1, LimitMax}}
    \cup {[NoFilter EXCEPT !.seller_id = {1}, !.is_expensive = {TRUE},
                           !.category_ids = {{1, 2}}]}

WithinFilter ==
    /\ IdsWithin(sellers, MaxId)
    /\ IdsWithin(products, MaxId)
    /\ IdsWithin(categories, MaxId)

NextFilter ==
    \/ \E e \in Emails, p \in Passwords : create_seller(e, p) /\ WithinFilter' /\ OneStep
    \/ \E s \in IdsOf(sellers), b \in FilteredProducts :
           create_product_for_seller(s, b) /\ WithinFilter' /\ OneStep
    \/ \E n \in CategoryNames :
           create_category([name |-> n, parent_id |-> None]) /\ WithinFilter' /\ OneStep
    \/ \E p \in IdsOf(products), c \in IdsOf(categories) :
           add_category_to_product(p, c) /\ WithinFilter' /\ OneStep
    \/ \E q \in FilterListQueries : get_products(q) /\ WithinFilter' /\ OneStep
    \/ \E q \in FilterSearchQueries : search_products(q) /\ WithinFilter' /\ OneStep

SpecFilter == InitNoUsers /\ [][NextFilter]_vars

\* ---- statistics -------------------------------------------------------
WithinStatistics ==
    /\ IdsWithin(sellers, MaxId)
    /\ IdsWithin(products, MaxId + 1)

NextStatistics ==
    \/ \E e \in Emails, p \in Passwords : create_seller(e, p) /\ WithinStatistics' /\ OneStep
    \/ \E s \in IdsOf(sellers), b \in ListedProducts :
           create_product_for_seller(s, b) /\ WithinStatistics' /\ OneStep
    \/ \E p \in Ids : delete_product(p) /\ WithinStatistics' /\ OneStep
    \/ \E s \in Ids : delete_seller(s) /\ WithinStatistics' /\ OneStep
    \/ get_seller_statistics /\ WithinStatistics' /\ OneStep

SpecStatistics == InitNoUsers /\ [][NextStatistics]_vars

\* ---- the example scenario of the list endpoint --------------------------
\* POST /sellers/{id}/products/ with name, price 50 and status only, and
\* with the seller id repeated in the body
ScenarioBodies ==
    {[name |-> <<"W", "i">>, price |-> 50, status |-> "active", seller_id |-> s,
      category_ids |-> {}] : s \in {None, {1}, {2}}}

ScenarioQueries ==
    {[skip |-> 0, limit |-> li, seller_id |-> s, min_price |-> None,
      max_price |-> mx] :
        li \in {100, LimitMax}, s \in {None, {1}}, mx \in {None, {10}, {50}}}

WithinScenario ==
    /\ IdsWithin(sellers, MaxId)
    /\ IdsWithin(products, MaxId)

NextScenario ==
    \/ \E e \in Emails, p \in Passwords : create_seller(e, p) /\ WithinScenario' /\ OneStep
    \/ \E s \in Ids, b \in ScenarioBodies :
           create_product_for_seller(s, b) /\ WithinScenario' /\ OneStep
    \/ \E q \in ScenarioQueries : get_products(q) /\ WithinScenario' /\ OneStep

SpecScenario == InitNoUsers /\ [][NextScenario]_vars

\* ---- seller of a product ----------------------------------------------
WithinLookup ==
    /\ IdsWithin(sellers, MaxId)
    /\ IdsWithin(products, MaxId)

NextLookup ==
    \/ \E e \in Emails, p \in Passwords : create_seller(e, p) /\ WithinLookup' /\ OneStep
    \/ \E s \in IdsOf(sellers), b \in PlainProducts :
           create_product_for_seller(s, b) /\ WithinLookup' /\ OneStep
    \/ \E s \in Ids : delete_seller(s) /\ WithinLookup' /\ OneStep
    \/ \E p \in Ids : delete_product(p) /\ WithinLookup' /\ OneStep
    \/ \E p \in Ids : get_product_seller(p) /\ WithinLookup' /\ OneStep
    \/ \E p \in Ids : get_product_seller_with_error_handling(p) /\ WithinLookup' /\ OneStep

SpecLookup == InitNoUsers /\ [][NextLookup]_vars

\* ---- range constraints of products, inventory and reviews ---------------
\* bodies inside the declared ranges and just outside them
CheckedProducts ==
    {[name |-> <<"G">>, price |-> pr, status |-> st, seller_id |-> {1},
      category_ids |-> {}] :
        pr \in {-1, 0, 50}, st \in {"active", "draft", "sold"}}
CheckedInventoryCreates ==
    {[product_id |-> {1}, quantity |-> q, reorder_level |-> r] :
        q \in {-1, 0}, r \in {-1, 10}}
CheckedInventoryUpdates ==
    {[quantity |-> q, reorder_level |-> r] :
        q \in {None, {-1}, {5}}, r \in {None, {-1}, {0}}}
CheckedReviews ==
    {[product_id |-> 1, user_id |-> None, rating |-> r] : r \in Ratings}

WithinChecks ==
    /\ IdsWithin(sellers, 1)
    /\ IdsWithin(products, 1)
    /\ IdsWithin(inventory, MaxId)
    /\ IdsWithin(reviews, MaxId)

NextChecks ==
    \/ \E p \in Passwords : create_seller("a@x.com", p) /\ WithinChecks' /\ OneStep
    \/ \E s \in IdsOf(sellers), b \in CheckedProducts :
           create_product_for_seller(s, b) /\ WithinChecks' /\ OneStep
    \/ \E p \in Ids, b \in CheckedInventoryCreates :
           create_product_inventory(p, b) /\ WithinChecks' /\ OneStep
    \/ \E p \in Ids, u \in CheckedInventoryUpdates :
           update_product_inventory(p, u) /\ WithinChecks' /\ OneStep
    \/ \E b \in CheckedReviews : create_review(b) /\ WithinChecks' /\ OneStep
    \/ \E p \in Ids : delete_product(p) /\ WithinChecks' /\ OneStep

SpecChecks == InitNoUsers /\ [][NextChecks]_vars

\* ---- requests in flight ---------------------------------------------------
\* the requests in flight of one handler
InFlight(op) ==
    Cardinality({r \in Slots : requests[r].pc # "idle" /\ requests[r].op = op})

\* no request is admitted that could take a primary key above the bound
WithinSession ==
    /\ Cardinality(sellers) + InFlight("create_seller") <= MaxId
    /\ Cardinality(categories) + InFlight("create_category") <= MaxId
    /\ Cardinality(products) + InFlight("create_product_for_seller") <= MaxId

\* requests of two handlers: they return, raise 400 or 404, or have their
\* commit refused when two of them pass the same check
SessionRequests ==
    {<<"create_seller", [email |-> "a@x.com", password |-> "pw123456"]>>,
     <<"create_category", [name |-> "Tools", parent_id |-> None]>>,
     <<"create_category", [name |-> "Toys", parent_id |-> {1}]>>}

NextSession ==
    \/ \E r \in Slots, q \in SessionRequests :
           get_db_yield(r, q[1], q[2]) /\ WithinSession'
    \/ \E r \in Slots : handler_checks(r)
    \/ \E r \in Slots : db_commit(r)
    \/ \E r \in Slots : get_db_finally(r)

\* the framework runs every handler it called to its end, and resumes the
\* dependency generator after it
FairSession ==
    \A r \in Slots : /\ WF_vars(handler_checks(r))
                     /\ WF_vars(db_commit(r))
                     /\ WF_vars(get_db_finally(r))

SpecSession == InitNoUsers /\ [][NextSession]_vars /\ FairSession

\* requests of four handlers: each can pass its checks, and each can raise
TransactionRequests ==
    {<<"create_seller", [email |-> "a@x.com", password |-> "pw123456"]>>}
    \cup {<<"create_category", [name |-> n, parent_id |-> pa]>> :
            n \in CategoryNames, pa \in {None, {1}}}
    \cup {<<"add_category_to_product", [product_id |-> 1, category_id |-> c]>> :
            c \in {1, 2}}
    \cup {<<"create_product_for_seller",
            [seller_id |-> s,
             product |-> [name |-> <<"G">>, price |-> 50, status |-> "active",
                          seller_id |-> {1}, category_ids |-> c]]>> :
            s \in {1, 2}, c \in {{}, {1}}}

NextTransaction ==
    \/ \E r \in Slots, q \in TransactionRequests :
           get_db_yield(r, q[1], q[2]) /\ WithinSession'
    \/ \E r \in Slots : handler_checks(r)
    \/ \E r \in Slots : db_commit(r)
    \/ \E r \in Slots : get_db_finally(r)

SpecTransaction == InitNoUsers /\ [][NextTransaction]_vars

\* a seller is created, given products and deleted by requests that
\* interleave
RaceRequests ==
    {<<"create_seller", [email |-> "a@x.com", password |-> "pw123456"]>>,
     <<"delete_seller", [seller_id |-> 1]>>}
    \cup {<<"create_product_for_seller",
            [seller_id |-> 1,
             product |-> [name |-> n, price |-> 50, status |-> "active",
                          seller_id |-> {1}, category_ids |-> {}]]>> :
            n \in {<<"G">>, <<"W">>}}

\* with deletes the next primary key is not the number of rows: no request
\* is admitted that could take a key above the bound
WithinRace ==
    /\ NextId(sellers) - 1 + InFlight("create_seller") <= MaxId
    /\ NextId(products) - 1 + InFlight("create_product_for_seller") <= MaxId

NextRace ==
    \/ \E r \in Slots, q \in RaceRequests :
           get_db_yield(r, q[1], q[2]) /\ WithinRace'
    \/ \E r \in Slots : handler_checks(r)
    \/ \E r \in Slots : db_commit(r)
    \/ \E r \in Slots : get_db_finally(r)

SpecRace == InitNoUsers /\ [][NextRace]_vars

\* ---- optional references ------------------------------------------------
\* parent_id and user_id absent, 0, the id of a row that can exist, and an
\* id no row takes
ReferenceCategories ==
    {[name |-> n, parent_id |-> pa] :
        n \in CategoryNames, pa \in {None, {0}, {1}, {MaxId + 1}}}
ReferenceReviews ==
    {[product_id |-> 1, user_id |-> u, rating |-> 5] :
        u \in {None, {0}, {1}, {MaxUsers + 1}}}

WithinReference ==
    /\ IdsWithin(sellers, 1)
    /\ IdsWithin(products, 1)
    /\ IdsWithin(categories, MaxId)
    /\ IdsWithin(reviews, MaxId)

NextReference ==
    \/ \E p \in Passwords : create_seller("a@x.com", p) /\ WithinReference' /\ OneStep
    \/ \E s \in IdsOf(sellers), b \in PlainProducts :
           create_product_for_seller(s, b) /\ WithinReference' /\ OneStep
    \/ \E b \in ReferenceCategories : create_category(b) /\ WithinReference' /\ OneStep
    \/ \E b \in ReferenceReviews : create_review(b) /\ WithinReference' /\ OneStep
    \/ \E p \in Ids : delete_product(p) /\ WithinReference' /\ OneStep

SpecReference == Init /\ [][NextReference]_vars

(***************************************************************************)
(* Properties.                                                             *)
(***************************************************************************)

\* C1: after any sequence of create-seller (and delete-seller) requests, a
\* create-seller request whose email is that of a stored seller is answered
\* 400 "Email already registered" and stores no row, and no two seller rows
\* share an email.
C1_DuplicateEmailConflict ==
    [][ /\ \A s1, s2 \in sellers' : s1.email = s2.email => s1 = s2
        /\ (/\ last'.op = "create_seller"
            /\ \E s \in sellers : s.email = last'.req.email)
           => /\ last'.status = HTTP_400_BAD_REQUEST
              /\ last'.detail = "Email already registered"
              /\ sellers' = sellers ]_vars

\* a duplicate email was refused while two sellers are stored
C1_Witness ==
    /\ last.op = "create_seller"
    /\ last.status = HTTP_400_BAD_REQUEST
    /\ \E s \in sellers : s.email = last.req.email
    /\ Cardinality(sellers) = 2

\* C2: in every envelope of the product list and the product search, with
\* T the reported total and L the limit in 1..1000, pages is the least
\* n >= 0 with n * L >= T (the ceiling of T / L), and 0 when T is 0; with
\* no filter supplied T is the number of product rows.
C2_PagesIsCeiling ==
    (last.op \in {"get_products", "search_products"} /\ last.status = 200)
    => LET T == last.body.total
           L == last.body.size
           n == last.body.pages
       IN  /\ L = last.req.limit
           /\ L \in 1..LimitMax
           /\ n >= 0
           /\ n * L >= T
           /\ n > 0 => (n - 1) * L < T
           /\ T = 0 => n = 0
           /\ (/\ last.req.seller_id = None
               /\ last.req.min_price = None
               /\ last.req.max_price = None
               /\ last.op = "search_products"
                  => /\ last.req.name = None
                     /\ last.req.is_expensive = None)
              => T = Cardinality(products)

\* three products listed two per page: a last page that is not full
C2_Witness ==
    /\ last.op = "get_products"
    /\ last.status = 200
    /\ last.body.total = 3
    /\ last.body.size = 2
    /\ last.body.pages = 2

\* C3: after a successful delete-seller request for S no product of S, no
\* profile of S, and no inventory or review row of a product that belonged
\* to S remains, and S itself is gone.
C3_DeleteSellerLeavesNoRows ==
    [][ (last'.op = "delete_seller" /\ last'.status = HTTP_204_NO_CONTENT)
        => LET S == last'.req.seller_id
               owned == {p.id : p \in {x \in products : x.seller_id = S}}
           IN  /\ ~\E s \in sellers' : s.id = S
               /\ ~\E p \in products' : p.seller_id = S
               /\ ~\E f \in seller_profiles' : f.seller_id = S
               /\ ~\E i \in inventory' : i.product_id \in owned
               /\ ~\E r \in reviews' : r.product_id \in owned ]_vars

\* a seller with a profile and a product with inventory and a review was
\* deleted while another seller stays stored
C3_Witness ==
    /\ last.op = "delete_seller"
    /\ last.status = HTTP_204_NO_CONTENT
    /\ {"seller_profiles", "products", "inventory", "reviews"} \subseteq last.deleted
    /\ sellers # {}

\* C4: after a successful delete-product request for P the product row, its
\* inventory row, its reviews and its category associations are gone.
C4_DeleteProductLeavesNoRows ==
    [][ (last'.op = "delete_product" /\ last'.status = HTTP_204_NO_CONTENT)
        => LET P == last'.req.product_id
           IN  /\ ~\E p \in products' : p.id = P
               /\ ~\E i \in inventory' : i.product_id = P
               /\ ~\E r \in reviews' : r.product_id = P
               /\ ~\E a \in product_category' : a.product_id = P ]_vars

\* a product with inventory, a review and a category was deleted
C4_Witness ==
    /\ last.op = "delete_product"
    /\ last.status = HTTP_204_NO_CONTENT
    /\ {"inventory", "reviews", "product_category"} \subseteq last.deleted
    /\ categories # {}

\* C5: for a stored product P and a stored category C, adding C to P when
\* (P, C) is associated is answered 400 "Category already assigned to
\* product", removing C from P when (P, C) is not associated is answered
\* 400 "Category not assigned to product", both leave the associations as
\* they were; an add that succeeds stores a pair that was not stored.
C5_AssociationConflicts ==
    [][ LET P == last'.req.product_id
            C == last'.req.category_id
            pair == [product_id |-> P, category_id |-> C]
            stored == /\ \E p \in products : p.id = P
                      /\ \E c \in categories : c.id = C
        IN  /\ (last'.op = "add_category_to_product" /\ stored
                /\ pair \in product_category)
               => /\ last'.status = HTTP_400_BAD_REQUEST
                  /\ last'.detail = "Category already assigned to product"
                  /\ product_category' = product_category
            /\ (last'.op = "remove_category_from_product" /\ stored
                /\ pair \notin product_category)
               => /\ last'.status = HTTP_400_BAD_REQUEST
                  /\ last'.detail = "Category not assigned to product"
                  /\ product_category' = product_category
            /\ (last'.op = "add_category_to_product" /\ last'.status = 200)
               => /\ pair \notin product_category
                  /\ product_category' = product_category \cup {pair} ]_vars

\* the second add of a stored pair was refused
C5_Witness ==
    /\ last.op = "add_category_to_product"
    /\ last.status = HTTP_400_BAD_REQUEST
    /\ [product_id |-> last.req.product_id,
        category_id |-> last.req.category_id] \in product_category
    /\ Cardinality(product_category) >= 2

\* C6: after any sequence of inventory create, inventory update and product
\* delete requests every product has at most one inventory row, and a
\* create-inventory request for a stored product that has an inventory row
\* is answered 400 "Inventory already exists for this product" and leaves
\* the inventory table as it was.
C6_OneInventoryPerProduct ==
    [][ /\ \A i1, i2 \in inventory' : i1.product_id = i2.product_id => i1 = i2
        /\ (/\ last'.op = "create_product_inventory"
            /\ last'.req.inventory.quantity >= 0
            /\ last'.req.inventory.reorder_level >= 0
            /\ last'.req.inventory.product_id # None
            /\ \E p \in products : p.id = last'.req.product_id
            /\ \E i \in inventory : i.product_id = last'.req.product_id)
           => /\ last'.status = HTTP_400_BAD_REQUEST
              /\ last'.detail = "Inventory already exists for this product"
              /\ inventory' = inventory ]_vars

\* a second inventory for the same product was refused, two rows stored
C6_Witness ==
    /\ last.op = "create_product_inventory"
    /\ last.status = HTTP_400_BAD_REQUEST
    /\ \E i \in inventory : i.product_id = last.req.product_id
    /\ Cardinality(inventory) = 2

\* C7: an update-inventory request within the field constraints, for a
\* product that has an inventory row, succeeds; it sets each supplied field
\* to the supplied value (0 included), keeps each field that is not
\* supplied, and changes no other inventory row and no other table.
C7_PartialInventoryUpdate ==
    [][ last'.op = "update_product_inventory"
        => LET P == last'.req.product_id
               u == last'.req.inventory_update
               valid == (\A q \in u.quantity : q >= 0)
                        /\ (\A r \in u.reorder_level : r >= 0)
           IN  /\ (valid /\ \E i \in inventory : i.product_id = P)
                  => last'.status = 200
               /\ last'.status = 200
                  => /\ \A i \in inventory : i.product_id # P => i \in inventory'
                     /\ Cardinality(inventory') = Cardinality(inventory)
                     /\ \A i \in inventory : i.product_id = P =>
                          \E j \in inventory' :
                            /\ j.id = i.id
                            /\ j.product_id = P
                            /\ j = last'.body
                            /\ IF u.quantity = None
                               THEN j.quantity = i.quantity
                               ELSE j.quantity \in u.quantity
                            /\ IF u.reorder_level = None
                               THEN j.reorder_level = i.reorder_level
                               ELSE j.reorder_level \in u.reorder_level
                     /\ UNCHANGED <<sellers, seller_profiles, products, categories,
                                    product_category, reviews, users>> ]_vars

\* quantity alone was set to 0 on a row that keeps its reorder level 10,
\* beside another inventory row
C7_Witness ==
    /\ last.op = "update_product_inventory"
    /\ last.status = 200
    /\ last.req.inventory_update.quantity = {0}
    /\ last.req.inventory_update.reorder_level = None
    /\ last.body.quantity = 0
    /\ last.body.reorder_level = 10
    /\ Cardinality(inventory) = 2

\* C8: a create-review request whose rating is below 1 or above 5 is
\* answered 422 with no statement run on the database, and no table changes.
C8_RatingOutOfRangeRejected ==
    [][ (/\ last'.op = "create_review"
         /\ (last'.req.review.rating < 1 \/ last'.req.review.rating > 5))
        => /\ last'.status = 422
           /\ last'.queries = 0
           /\ reviews' = reviews
           /\ UNCHANGED store ]_vars

\* rating 6 for a stored product was rejected
C8_Witness ==
    /\ last.op = "create_review"
    /\ last.status = 422
    /\ last.req.review.rating = 6
    /\ \E p \in products : p.id = last.req.review.product_id
    /\ reviews # {}

\* C9: a create-product-for-seller request with a body that passes
\* ProductCreate and a path seller id that matches no stored seller is
\* answered 404 "Seller not found" and stores no product row and no
\* association row.
C9_UnknownSellerNotFound ==
    [][ (/\ last'.op = "create_product_for_seller"
         /\ last'.req.product.price > 0
         /\ last'.req.product.status \in {"active", "inactive", "draft"}
         /\ last'.req.product.seller_id # None
         /\ ~\E s \in sellers : s.id = last'.req.seller_id)
        => /\ last'.status = HTTP_404_NOT_FOUND
           /\ last'.detail = "Seller not found"
           /\ products' = products
           /\ product_category' = product_category ]_vars

\* a product with a stored category was refused for an unknown seller
\* while another seller is stored
C9_Witness ==
    /\ last.op = "create_product_for_seller"
    /\ last.status = HTTP_404_NOT_FOUND
    /\ sellers # {}
    /\ \E c \in categories : c.id \in last.req.product.category_ids

\* C10: a create-product-for-seller request with a valid body for a stored
\* seller whose category id list holds an id of no stored category is
\* answered 404 and stores no product.
C10_UnknownCategoryNotFound ==
    [][ (/\ last'.op = "create_product_for_seller"
         /\ last'.req.product.price > 0
         /\ last'.req.product.status \in {"active", "inactive", "draft"}
         /\ last'.req.product.seller_id # None
         /\ \E s \in sellers : s.id = last'.req.seller_id
         /\ \E c \in last'.req.product.category_ids :
                ~\E k \in categories : k.id = c)
        => /\ last'.status = HTTP_404_NOT_FOUND
           /\ products' = products ]_vars
\* the filters a list request supplied (a value other than None), each as
\* the predicate it states on a product
SuppliedSellerId(q, p) == \A v \in q.seller_id : p.seller_id = v
SuppliedMinPrice(q, p) == \A v \in q.min_price : p.price >= v
SuppliedMaxPrice(q, p) == \A v \in q.max_price : p.price <= v
SuppliedStatus(q, p) == \A v \in q.status : p.status = v
SuppliedExpensive(q, p) == \A v \in q.is_expensive : (p.price > 100) = v
SuppliedCategories(q, p) ==
    \A ids \in q.category_ids :
        \E a \in product_category : a.product_id = p.id /\ a.category_id \in ids

\* C11: every product a 200 answer of the product list or of the product
\* search returns satisfies every filter the request supplied, a supplied 0
\* for seller id, min price or max price included.
C11_FiltersConjunctive ==
    /\ (last.op = "get_products" /\ last.status = 200) =>
           \A id \in last.body.items : \A p \in ProductById(id) :
               /\ SuppliedSellerId(last.req, p)
               /\ SuppliedMinPrice(last.req, p)
               /\ SuppliedMaxPrice(last.req, p)
    /\ (last.op = "search_products" /\ last.status = 200) =>
           \A id \in last.body.items : \A p \in ProductById(id) :
               /\ SuppliedSellerId(last.req, p)
               /\ SuppliedMinPrice(last.req, p)
               /\ SuppliedMaxPrice(last.req, p)
               /\ SuppliedStatus(last.req, p)
               /\ SuppliedExpensive(last.req, p)
               /\ SuppliedCategories(last.req, p)

\* C12: the statistics answer reports the number of seller rows and the
\* number of product rows, and 0 for total_products and the three price
\* aggregates when no product is stored.
C12_StatisticsCountRows ==
    last.op = "get_seller_statistics" =>
        /\ last.body.total_sellers = Cardinality(sellers)
        /\ last.body.total_products = Cardinality(products)
        /\ products = {} =>
               /\ last.body.total_products = 0
               /\ last.body.average_price = <<0, 1>>
               /\ last.body.max_price = 0
               /\ last.body.min_price = 0

\* C17: the total of a search answer is the number of distinct products that
\* satisfy every supplied filter, also when the category id filter names two
\* categories of one product.  (Requests that supply a 0 or an empty category
\* list are the case of C11 and are left out here; items is a set of product
\* ids, so no product is in it twice.)
C17_SearchTotalDistinct ==
    (/\ last.op = "search_products" /\ last.status = 200
     /\ 0 \notin (last.req.seller_id \cup last.req.min_price \cup last.req.max_price)
     /\ last.req.category_ids # {{}}) =>
        last.body.total =
            Cardinality({p \in products :
                /\ \A v \in last.req.name : ILike(p.name, v)
                /\ SuppliedSellerId(last.req, p)
                /\ SuppliedMinPrice(last.req, p)
                /\ SuppliedMaxPrice(last.req, p)
                /\ SuppliedStatus(last.req, p)
                /\ SuppliedExpensive(last.req, p)
                /\ SuppliedCategories(last.req, p)})

\* C15: the seller row a successful create-seller request stored holds a
\* password other than the submitted one (its hash), and the answer has no
\* password field.
C15_PasswordStoredHashed ==
    (last.op = "create_seller" /\ last.status = HTTP_201_CREATED) =>
        /\ "password" \notin DOMAIN last.body
        /\ \A s \in sellers :
               s.id = last.body.id => s.password # last.req.password

\* C16: a product created under a stored seller's path id with only name,
\* price 50 and status active in the body is answered 201 and stored with
\* the path seller id; with that product as the only kind stored, the list
\* with max_price = 10 answers no items, total 0 and pages 0.
C16_ExampleScenario ==
    /\ (/\ last.op = "create_product_for_seller"
        /\ last.req.product.seller_id = None
        /\ last.req.seller_id \in {s.id : s \in sellers})
       => /\ last.status = HTTP_201_CREATED
          /\ \E p \in products :
                 p.id = last.body.id /\ p.seller_id = last.req.seller_id
    /\ (/\ last.op = "get_products"
        /\ last.req.max_price = {10}
        /\ last.status = 200)
       => /\ last.body.items = {}
          /\ last.body.total = 0
          /\ last.body.pages = 0

\* C18: a create-product-for-seller request with a valid body whose name is
\* that of a product already stored for the same seller is answered with a
\* Conflict (400, or 409) and stores nothing, and no two products of one
\* seller ever share a name.
C18_DuplicateProductNameConflict ==
    /\ [](\A p1 \in products, p2 \in products :
              (p1.name = p2.name /\ p1.seller_id = p2.seller_id) => p1 = p2)
    /\ [][ (/\ last'.op = "create_product_for_seller"
            /\ last'.req.product.price > 0
            /\ last'.req.product.status \in {"active", "inactive", "draft"}
            /\ last'.req.product.seller_id # None
            /\ \E p \in products : /\ p.seller_id = last'.req.seller_id
                                   /\ p.name = last'.req.product.name
                                   /\ \E s \in sellers : s.id = p.seller_id)
           => /\ last'.status \in {HTTP_400_BAD_REQUEST, 409}
              /\ products' = products ]_vars

\* C19: the lookup with structured error handling answers a product id that
\* matches no stored product with 404, error code PRODUCT_NOT_FOUND and field
\* product_id, and answers 500 INTERNAL_ERROR for none of its own NotFound
\* cases.
C19_StructuredNotFound ==
    last.op = "get_product_seller_with_error_handling" =>
        /\ ProductById(last.req.product_id) = {} =>
               /\ last.status = HTTP_404_NOT_FOUND
               /\ last.detail.error_code = "PRODUCT_NOT_FOUND"
               /\ last.detail.field = {"product_id"}
        /\ last.status # HTTP_500_INTERNAL_SERVER_ERROR

\* C20: in every reachable store, every product has price >= 0 and one of the
\* three statuses, every inventory row has quantity >= 0 and reorder_level
\* >= 0, and every review has a rating from 1 to 5.
C20_StoredRowsInRange ==
    /\ \A p \in products :
           p.price >= 0 /\ p.status \in {"active", "inactive", "draft"}
    /\ \A i \in inventory : i.quantity >= 0 /\ i.reorder_level >= 0
    /\ \A r \in reviews : r.rating >= 1 /\ r.rating <= 5

\* an inventory update went through on a store that holds a product, its
\* inventory and a review
C20_Witness ==
    /\ last.op = "update_product_inventory"
    /\ last.status = 200
    /\ last.req.inventory_update.quantity = {5}
    /\ products # {}
    /\ reviews # {}

\* C13: a request in flight holds exactly one open session, a request that
\* has finished holds none, and every open session is closed in the end,
\* whether the handler returned or raised.
C13_SessionClosedOnEveryExit ==
    /\ [](\A r \in Slots : (requests[r].pc # "idle") <=> (requests[r].session = "open"))
    /\ \A r \in Slots :
           (requests[r].session = "open") ~> (requests[r].session = "closed")

\* one request has finished with its session closed, and the handler of
\* another has raised 404 with its session still open
C13_Witness ==
    /\ \E r \in Slots : requests[r].session = "closed"
    /\ \E r \in Slots : /\ requests[r].pc = "raised"
                         /\ requests[r].response.status = HTTP_404_NOT_FOUND
                         /\ requests[r].session = "open"

\* C14: the committed store changes only in the commit step of a request
\* that then returns normally; a request that ends with an error (400, 404,
\* 422, and the 500 of a refused commit) has changed nothing.
C14_ErrorLeavesStoreUnchanged ==
    [][ store' # store =>
            \E r \in Slots :
                /\ requests[r].pc = "added"
                /\ requests'[r].pc = "returned"
                /\ requests'[r].response.status < 400
                /\ \A o \in Slots \ {r} : requests'[o] = requests[o] ]_vars

\* a commit was refused by the store with rows of two tables pending
C14_Witness ==
    \E r \in Slots :
        /\ requests[r].pc = "raised"
        /\ requests[r].response.status = HTTP_500_INTERNAL_SERVER_ERROR
        /\ requests[r].pending.products # {}
        /\ requests[r].pending.product_category # {}

\* C21: in every 200 answer of the product list and of the product search,
\* page is floor(skip / limit) + 1, and when items is not empty, page lies in
\* 1..pages and the number of items is min(limit, total - skip).
C21_PageAndItemCount ==
    (last.op \in {"get_products", "search_products"} /\ last.status = 200) =>
        /\ last.body.page = (last.req.skip \div last.req.limit) + 1
        /\ last.body.items # {} =>
               /\ 1 <= last.body.page
               /\ last.body.page <= last.body.pages
               /\ Cardinality(last.body.items) =
                      IF last.req.limit <= last.body.total - last.req.skip
                      THEN last.req.limit
                      ELSE last.body.total - last.req.skip

\* C22: in every reachable store, the parent_id of a category is null or the
\* id of a stored category, and the user_id of a review is null or the id of
\* a stored user, also after requests that sent 0 for either.
C22_OptionalReferencesResolve ==
    /\ \A c \in categories :
           \A v \in c.parent_id : \E k \in categories : k.id = v
    /\ \A r \in reviews :
           \A v \in r.user_id : \E u \in users : u.id = v

\* C23: when a create-product-for-seller request and a delete-seller request
\* for the same seller have interleaved and both have finished, every product
\* row has the seller_id of a stored seller.
C23_NoOrphanProductAfterRace ==
    (\A r \in Slots : requests[r].pc = "idle") =>
        \A p \in products : \E s \in sellers : s.id = p.seller_id

\* C24: with create-seller requests for one email in flight together, at most
\* one seller row holds the email, and a request that stored no row is
\* answered 400 "Email already registered", never with an unhandled error.
C24_ConcurrentDuplicateEmailConflict ==
    /\ \A s1 \in sellers, s2 \in sellers : s1.email = s2.email => s1 = s2
    /\ \A r \in Slots :
           (requests[r].op = "create_seller" /\ requests[r].pc = "raised") =>
               requests[r].response.status = HTTP_400_BAD_REQUEST

\* C25: a delete-product request answered 204 for product P leaves sellers,
\* seller profiles, categories and users as they were, and removes from
\* products, inventory, reviews and associations the rows of P and no other.
C25_DeleteProductFrame ==
    [][ (last'.op = "delete_product" /\ last'.status = HTTP_204_NO_CONTENT) =>
            LET P == last'.req.product_id
            IN  /\ sellers' = sellers
                /\ seller_profiles' = seller_profiles
                /\ categories' = categories
                /\ users' = users
                /\ products' = {p \in products : p.id # P}
                /\ inventory' = {i \in inventory : i.product_id # P}
                /\ reviews' = {r \in reviews : r.product_id # P}
                /\ product_category' = {a \in product_category : a.product_id # P}
                /\ \A p \in products : p.id = P =>
                       \E s \in sellers' : s.id = p.seller_id ]_vars

\* a product with a category was deleted while another product, a review of
\* it, the category and the seller stay
C25_Witness ==
    /\ last.op = "delete_product"
    /\ last.status = HTTP_204_NO_CONTENT
    /\ "product_category" \in last.deleted
    /\ products # {}
    /\ reviews # {}
    /\ categories # {}
    /\ sellers # {}

====
